---- MODULE Spec2Model ----
(***************************************************************************)
(* A model of the S3 adapters of tokenring-ai/s3: the key normalizer       *)
(* (_s3Key), the filesystem provider (S3FileSystemProvider) and the CDN    *)
(* adapters (S3CDNService, S3CDNProvider), acting on one bucket.           *)
(*                                                                         *)
(* A string is a sequence of one-character strings: <<"a", "/", "b">> is   *)
(* the path a/b.  The backslash is written BS.                             *)
(***************************************************************************)
EXTENDS Integers, Sequences, FiniteSets, TLC

VARIABLES
    kpath,      \* the path last handed to _s3Key
    kres,       \* what _s3Key did with it
    bucket,     \* the bucket: stored key -> stored bytes
    pc,         \* where the caller is: "idle", or inside a directory listing
    last,       \* the call that returned last, with its result
    prev,       \* the successful write or delete right before it, if any
    tree,       \* the running getDirectoryTree generator
    renaming,   \* the rename that has copied and not yet deleted, if any
    cdn,        \* the CDN adapter: which class, and its baseUrl option
    uploaded    \* the result of the last upload, as the caller holds it

keyVars == <<kpath, kres>>
fsVars == <<bucket, pc, last, prev, tree, renaming>>
cdnVars == <<cdn, uploaded>>
vars == <<kpath, kres, bucket, pc, last, prev, tree, renaming, cdn, uploaded>>

----------------------------------------------------------------------------
(* Strings *)

BS == "\\"

\* All strings over the characters S of length at most n.
Strs(S, n) == UNION {[1..k -> S] : k \in 0..n}

Last(s) == s[Len(s)]
Front(s) == SubSeq(s, 1, Len(s) - 1)

\* String.prototype.startsWith
StartsWith(s, p) == Len(p) <= Len(s) /\ SubSeq(s, 1, Len(p)) = p

\* String.prototype.endsWith
EndsWith(s, p) == Len(p) <= Len(s) /\ SubSeq(s, Len(s) - Len(p) + 1, Len(s)) = p

\* String.prototype.substring(n) for 0 <= n (n past the end gives "").
Substring(s, n) == IF n >= Len(s) THEN <<>> ELSE SubSeq(s, n + 1, Len(s))

----------------------------------------------------------------------------
(* _s3Key: path to object key *)

\* fsPath.replace(/\\/g, "/")
ReplaceBackslashes(s) == [i \in 1..Len(s) |-> IF s[i] = BS THEN "/" ELSE s[i]]

RECURSIVE DropLeadingSlashes(_)
DropLeadingSlashes(s) ==
    IF s # <<>> /\ Head(s) = "/" THEN DropLeadingSlashes(Tail(s)) ELSE s

RECURSIVE DropTrailingSlashes(_)
DropTrailingSlashes(s) ==
    IF s # <<>> /\ Last(s) = "/" THEN DropTrailingSlashes(Front(s)) ELSE s

\* .replace(/^\/+|\/+$/g, "")
StripSlashes(s) == DropTrailingSlashes(DropLeadingSlashes(s))

\* String.prototype.split("/"): the empty string splits into one empty part.
RECURSIVE SplitFrom(_, _, _)
SplitFrom(s, i, cur) ==
    IF i > Len(s) THEN <<cur>>
    ELSE IF s[i] = "/" THEN <<cur>> \o SplitFrom(s, i + 1, <<>>)
    ELSE SplitFrom(s, i + 1, Append(cur, s[i]))

Split(s) == SplitFrom(s, 1, <<>>)

\* Array.prototype.join("/")
RECURSIVE Join(_)
Join(parts) ==
    IF parts = <<>> THEN <<>>
    ELSE IF Len(parts) = 1 THEN parts[1]
    ELSE parts[1] \o <<"/">> \o Join(Tail(parts))

DotDot == <<".", ".">>
Dot == <<".">>

\* The walk with the traversal check left out: ".." on an empty stack is skipped.
RECURSIVE WalkPartsNoThrow(_, _, _)
WalkPartsNoThrow(parts, i, resultParts) ==
    IF i > Len(parts) THEN [ok |-> TRUE, parts |-> resultParts]
    ELSE IF parts[i] = DotDot THEN
        WalkPartsNoThrow(parts, i + 1,
            IF Len(resultParts) = 0 THEN resultParts ELSE Front(resultParts))
    ELSE IF parts[i] # Dot /\ parts[i] # <<>> THEN
        WalkPartsNoThrow(parts, i + 1, Append(resultParts, parts[i]))
    ELSE WalkPartsNoThrow(parts, i + 1, resultParts)

\* The loop over the parts: the stack of kept parts, or the throw.
RECURSIVE WalkParts(_, _, _)
WalkParts(parts, i, resultParts) ==
    IF i > Len(parts) THEN [ok |-> TRUE, parts |-> resultParts]
    ELSE IF parts[i] = DotDot THEN
        IF Len(resultParts) = 0 THEN [ok |-> FALSE, parts |-> <<>>]
        ELSE WalkParts(parts, i + 1, Front(resultParts))
    ELSE IF parts[i] # Dot /\ parts[i] # <<>> THEN
        WalkParts(parts, i + 1, Append(resultParts, parts[i]))
    ELSE WalkParts(parts, i + 1, resultParts)

\* _s3Key with the backslashes replaced in the joined key instead of in the
\* path, so that a part like a\.. is kept whole and only then rewritten.
S3KeyReplacingLate(fsPath) ==
    LET walked == WalkParts(Split(StripSlashes(fsPath)), 1, <<>>)
    IN  [ok |-> walked.ok, key |-> ReplaceBackslashes(Join(walked.parts))]

\* _s3Key(fsPath): ok = FALSE is the throw "attempts to traverse above bucket
\* root"; otherwise key is the returned key.
S3Key(fsPath) ==
    LET normalizedPath == StripSlashes(ReplaceBackslashes(fsPath))
        walked == WalkParts(Split(normalizedPath), 1, <<>>)
    IN  [ok |-> walked.ok, key |-> Join(walked.parts)]

\* kres before _s3Key was called.
NoKeyCall == [called |-> FALSE, ok |-> TRUE, key |-> <<>>]

----------------------------------------------------------------------------
(* Text and bytes.  A JavaScript string is a sequence of UTF-16 code units, a *)
(* Buffer a sequence of bytes.                                                *)

IsHighSurrogate(u) == 55296 <= u /\ u <= 56319
IsLowSurrogate(u) == 56320 <= u /\ u <= 57343
IsContinuation(b) == 128 <= b /\ b <= 191
ReplacementChar == 65533

Utf8Bytes(cp) ==
    IF cp < 128 THEN <<cp>>
    ELSE IF cp < 2048 THEN <<192 + (cp \div 64), 128 + (cp % 64)>>
    ELSE IF cp < 65536 THEN
        <<224 + (cp \div 4096), 128 + ((cp \div 64) % 64), 128 + (cp % 64)>>
    ELSE <<240 + (cp \div 262144), 128 + ((cp \div 4096) % 64),
           128 + ((cp \div 64) % 64), 128 + (cp % 64)>>

\* A string sent as a request body is encoded as UTF-8: a surrogate pair is
\* one code point, an unpaired surrogate becomes U+FFFD.
RECURSIVE Utf8Encode(_)
Utf8Encode(units) ==
    IF units = <<>> THEN <<>>
    ELSE LET u == Head(units) IN
        IF IsHighSurrogate(u) /\ Len(units) >= 2 /\ IsLowSurrogate(units[2]) THEN
            Utf8Bytes(65536 + (u - 55296) * 1024 + (units[2] - 56320))
                \o Utf8Encode(Tail(Tail(units)))
        ELSE IF IsHighSurrogate(u) \/ IsLowSurrogate(u) THEN
            Utf8Bytes(ReplacementChar) \o Utf8Encode(Tail(units))
        ELSE Utf8Bytes(u) \o Utf8Encode(Tail(units))

CodeUnits(cp) ==
    IF cp < 65536 THEN <<cp>>
    ELSE <<55296 + ((cp - 65536) \div 1024), 56320 + ((cp - 65536) % 1024)>>

\* The second byte a lead byte admits (no overlong form, no surrogate, no
\* code point past U+10FFFF).
ValidSecond(lead, b) ==
    /\ IsContinuation(b)
    /\ lead = 224 => b >= 160
    /\ lead = 237 => b <= 159
    /\ lead = 240 => b >= 144
    /\ lead = 244 => b <= 143

\* Buffer.prototype.toString("utf8"): each ill-formed part decodes to U+FFFD.
RECURSIVE Utf8Decode(_)
Utf8Decode(bytes) ==
    IF bytes = <<>> THEN <<>>
    ELSE LET b == bytes[1]
             n == Len(bytes)
             rest(k) == Utf8Decode(SubSeq(bytes, k + 1, n))
         IN
        IF b < 128 THEN <<b>> \o rest(1)
        ELSE IF 194 <= b /\ b <= 223 THEN
            IF n >= 2 /\ IsContinuation(bytes[2])
            THEN <<(b - 192) * 64 + (bytes[2] - 128)>> \o rest(2)
            ELSE <<ReplacementChar>> \o rest(1)
        ELSE IF 224 <= b /\ b <= 239 THEN
            IF ~(n >= 2 /\ ValidSecond(b, bytes[2])) THEN <<ReplacementChar>> \o rest(1)
            ELSE IF ~(n >= 3 /\ IsContinuation(bytes[3])) THEN <<ReplacementChar>> \o rest(2)
            ELSE <<(b - 224) * 4096 + (bytes[2] - 128) * 64 + (bytes[3] - 128)>> \o rest(3)
        ELSE IF 240 <= b /\ b <= 244 THEN
            IF ~(n >= 2 /\ ValidSecond(b, bytes[2])) THEN <<ReplacementChar>> \o rest(1)
            ELSE IF ~(n >= 3 /\ IsContinuation(bytes[3])) THEN <<ReplacementChar>> \o rest(2)
            ELSE IF ~(n >= 4 /\ IsContinuation(bytes[4])) THEN <<ReplacementChar>> \o rest(3)
            ELSE CodeUnits((b - 240) * 262144 + (bytes[2] - 128) * 4096
                             + (bytes[3] - 128) * 64 + (bytes[4] - 128)) \o rest(4)
        ELSE <<ReplacementChar>> \o rest(1)

\* Buffer.prototype.toString("latin1"): one code unit per byte.
Latin1Decode(bytes) == bytes

Text(units) == [kind |-> "text", data |-> units]
Buffer(bytes) == [kind |-> "buffer", data |-> bytes]

\* The bytes of a request body (Body: content).
BodyBytes(content) ==
    IF content.kind = "text" THEN Utf8Encode(content.data) ELSE content.data

\* The body decoded one code unit per byte whatever the encoding asked for.
TransformToStringBytewise(bytes, encoding) == Latin1Decode(bytes)

\* response.Body.transformToString(encoding); no encoding means UTF-8.
TransformToString(bytes, encoding) ==
    IF encoding = "latin1" THEN Latin1Decode(bytes) ELSE Utf8Decode(bytes)

----------------------------------------------------------------------------
(* The object store, as the S3 client answers.  A request that the store    *)
(* refuses or that does not get through (permission, network, throttling)   *)
(* ends with the error StoreError; which request of a call fails is an      *)
(* input of the call.                                                       *)

Ok(v) == [out |-> "ok", val |-> v]
Err(e) == [out |-> e, val |-> <<>>]

HasObject(b, key) == key \in DOMAIN b

\* PutObjectCommand
PutObject(b, key, bytes) ==
    [k \in DOMAIN b \cup {key} |-> IF k = key THEN bytes ELSE b[k]]

\* DeleteObjectCommand: S3 answers 204 whether or not the key held an object.
DeleteObject(b, key) == [k \in DOMAIN b \ {key} |-> b[k]]

\* HeadObjectCommand: 404 NotFound for a key that holds nothing.
HeadObject(b, key) ==
    IF HasObject(b, key) THEN Ok([ContentLength |-> Len(b[key])]) ELSE Err("NotFound")

\* GetObjectCommand: NoSuchKey for a key that holds nothing.
GetObject(b, key) ==
    IF HasObject(b, key) THEN Ok(b[key]) ELSE Err("NoSuchKey")

\* CopyObjectCommand: NoSuchKey without a source object; S3 refuses to copy an
\* object onto itself when nothing but the key is given (InvalidRequest).
CopyObject(b, sourceKey, destinationKey) ==
    IF ~HasObject(b, sourceKey) THEN Err("NoSuchKey")
    ELSE IF sourceKey = destinationKey THEN Err("InvalidRequest")
    ELSE Ok(PutObject(b, destinationKey, b[sourceKey]))

\* The order S3 lists keys in: by character code, shorter first on a tie.
\* CopyObject on the endpoint of clientConfig.  S3 rejects the copy of an
\* object onto itself; another endpoint may accept it and leave the object as
\* it is.  selfCopy is that answer: "rejected" or "accepted".
CopyObjectOnEndpoint(b, sourceKey, destinationKey, selfCopy) ==
    IF sourceKey = destinationKey /\ HasObject(b, sourceKey) /\ selfCopy = "accepted"
    THEN Ok(b)
    ELSE CopyObject(b, sourceKey, destinationKey)

CharOrder == <<".", "/", ":", BS, "a", "b", "d", "s">>
CharRank(c) == CHOOSE i \in 1..Len(CharOrder) : CharOrder[i] = c

KeyLess(x, y) ==
    \E i \in 1..(Len(x) + 1) :
        /\ i <= Len(y)
        /\ SubSeq(x, 1, i - 1) = SubSeq(y, 1, i - 1)
        /\ i <= Len(x) => CharRank(x[i]) < CharRank(y[i])

RECURSIVE SortKeys(_)
SortKeys(S) ==
    IF S = {} THEN <<>>
    ELSE LET least == CHOOSE k \in S : \A o \in S \ {k} : KeyLess(k, o)
         IN  <<least>> \o SortKeys(S \ {least})

\* No continuation token (undefined).
NoToken == <<>>

\* ListObjectsV2Command without a delimiter: at most maxKeys of the keys that
\* start with the prefix, in order, after the key the token stands for; a
\* next token exactly when keys remain.
ListObjectsV2(b, prefix, token, maxKeys) ==
    LET matching == {k \in DOMAIN b :
                        StartsWith(k, prefix) /\ (token = NoToken \/ KeyLess(token, k))}
        sorted == SortKeys(matching)
        page == SubSeq(sorted, 1, IF Len(sorted) < maxKeys THEN Len(sorted) ELSE maxKeys)
    IN  [Contents |-> page,
         KeyCount |-> Len(page),
         NextContinuationToken |-> IF Len(sorted) > maxKeys THEN Last(page) ELSE NoToken]

----------------------------------------------------------------------------
(* S3FileSystemProvider.  One caller issues the calls one after the other;  *)
(* last is the call that returned last: its arguments, out ("ok" or the     *)
(* error thrown), val (the value returned), reqs (the requests sent to the  *)
(* store, in order) and fault (the request the store failed, if any).       *)

NoCall == [op |-> "none"]

\* What prev keeps of a call: a write or delete that succeeded.
Mutation(call) ==
    IF call.op \in {"writeFile", "deleteFile", "cdnDelete"} /\ call.out = "ok"
    THEN call ELSE NoCall

Done(call, out, val, reqs) ==
    /\ last' = call @@ [out |-> out, val |-> val, reqs |-> reqs]
    /\ prev' = Mutation(last)

Returns(call, val, reqs) == Done(call, "ok", val, reqs)
Throws(call, err, reqs) == Done(call, err, <<>>, reqs)

WriteFile(fsPath, content, fault) ==
    LET k == S3Key(fsPath)
        call == [op |-> "writeFile", path |-> fsPath, content |-> content, fault |-> fault]
    IN  /\ pc = "idle"
        /\ IF ~k.ok THEN Throws(call, "PathTraversal", <<>>) /\ UNCHANGED bucket
           ELSE IF k.key = <<>> THEN Throws(call, "EmptyKey", <<>>) /\ UNCHANGED bucket
           ELSE IF fault = "put" THEN Throws(call, "StoreError", <<"put">>) /\ UNCHANGED bucket
           ELSE /\ bucket' = PutObject(bucket, k.key, BodyBytes(content))
                /\ Returns(call, TRUE, <<"put">>)
        /\ UNCHANGED <<pc, tree, renaming, keyVars, cdnVars>>

ReadFile(fsPath, encoding, fault) ==
    LET k == S3Key(fsPath)
        call == [op |-> "readFile", path |-> fsPath, encoding |-> encoding, fault |-> fault]
        response == GetObject(bucket, k.key)
    IN  /\ pc = "idle"
        /\ IF ~k.ok THEN Throws(call, "PathTraversal", <<>>)
           ELSE IF k.key = <<>> THEN Throws(call, "EmptyKey", <<>>)
           ELSE IF fault = "get" THEN Throws(call, "StoreError", <<"get">>)
           ELSE IF response.out # "ok" THEN Throws(call, response.out, <<"get">>)
           ELSE IF encoding = "buffer" THEN Returns(call, Buffer(response.val), <<"get">>)
           ELSE Returns(call, Text(TransformToString(response.val, encoding)), <<"get">>)
        /\ UNCHANGED <<bucket, pc, tree, renaming, keyVars, cdnVars>>

DeleteFile(fsPath, fault) ==
    LET k == S3Key(fsPath)
        call == [op |-> "deleteFile", path |-> fsPath, fault |-> fault]
    IN  /\ pc = "idle"
        /\ IF ~k.ok THEN Throws(call, "PathTraversal", <<>>) /\ UNCHANGED bucket
           ELSE IF k.key = <<>> THEN Throws(call, "EmptyKey", <<>>) /\ UNCHANGED bucket
           ELSE IF fault = "delete" THEN Throws(call, "StoreError", <<"delete">>) /\ UNCHANGED bucket
           ELSE /\ bucket' = DeleteObject(bucket, k.key)
                /\ Returns(call, TRUE, <<"delete">>)
        /\ UNCHANGED <<pc, tree, renaming, keyVars, cdnVars>>

\* exists answered from a listing: true when any stored key starts with the key.
ExistsByPrefix(b, fsPath, fault) ==
    LET k == S3Key(fsPath)
    IN  IF ~k.ok THEN [out |-> "PathTraversal", val |-> <<>>, reqs |-> <<>>]
        ELSE IF k.key = <<>> THEN [out |-> "ok", val |-> FALSE, reqs |-> <<>>]
        ELSE IF fault = "head" THEN [out |-> "StoreError", val |-> <<>>, reqs |-> <<"head">>]
        ELSE [out |-> "ok", val |-> \E key \in DOMAIN b : StartsWith(key, k.key),
              reqs |-> <<"head">>]

\* exists with a catch that reports every error of the head request as false.
ExistsFoldingErrors(b, fsPath, fault) ==
    LET k == S3Key(fsPath)
    IN  IF ~k.ok THEN [out |-> "PathTraversal", val |-> <<>>, reqs |-> <<>>]
        ELSE IF k.key = <<>> THEN [out |-> "ok", val |-> FALSE, reqs |-> <<>>]
        ELSE [out |-> "ok", val |-> fault # "head" /\ HasObject(b, k.key),
              reqs |-> <<"head">>]

\* exists(fsPath) as a function of the bucket: what it does, and the requests.
ExistsResult(b, fsPath, fault) ==
    LET k == S3Key(fsPath)
        response == HeadObject(b, k.key)
    IN  IF ~k.ok THEN [out |-> "PathTraversal", val |-> <<>>, reqs |-> <<>>]
        ELSE IF k.key = <<>> THEN [out |-> "ok", val |-> FALSE, reqs |-> <<>>]
        ELSE IF fault = "head" THEN [out |-> "StoreError", val |-> <<>>, reqs |-> <<"head">>]
        ELSE IF response.out = "ok" THEN [out |-> "ok", val |-> TRUE, reqs |-> <<"head">>]
        ELSE IF response.out \in {"NoSuchKey", "NotFound"}
            THEN [out |-> "ok", val |-> FALSE, reqs |-> <<"head">>]
        ELSE [out |-> response.out, val |-> <<>>, reqs |-> <<"head">>]

Exists(fsPath, fault) ==
    LET r == ExistsResult(bucket, fsPath, fault)
    IN  /\ pc = "idle"
        /\ Done([op |-> "exists", path |-> fsPath, fault |-> fault], r.out, r.val, r.reqs)
        /\ UNCHANGED <<bucket, pc, tree, renaming, keyVars, cdnVars>>

StatMaxKeys == 1

FileStat(head) ==
    [isFile |-> TRUE, isDirectory |-> FALSE, isSymbolicLink |-> FALSE,
     size |-> head.ContentLength, modified |-> "LastModified",
     created |-> "LastModified", accessed |-> "LastModified"]

DirectoryStat ==
    [isFile |-> FALSE, isDirectory |-> TRUE, isSymbolicLink |-> FALSE,
     size |-> 0, modified |-> "undefined",
     created |-> "undefined", accessed |-> "undefined"]

\* stat with a catch that takes every error of the head request for not-found.
StatCatchingAll(b, fsPath, fault) ==
    LET k == S3Key(fsPath)
        head == HeadObject(b, k.key)
        headReqs == IF k.key = <<>> THEN <<>> ELSE <<"head">>
        prefixToCheck == IF k.key # <<>> THEN k.key \o <<"/">> ELSE <<>>
        listResponse == ListObjectsV2(b, prefixToCheck, NoToken, 1)
    IN  IF ~k.ok THEN [out |-> "PathTraversal", val |-> <<>>, reqs |-> <<>>]
        ELSE IF k.key # <<>> /\ fault # "head" /\ head.out = "ok"
            THEN [out |-> "ok", val |-> FileStat(head.val), reqs |-> headReqs]
        ELSE IF fault = "list"
            THEN [out |-> "StoreError", val |-> <<>>, reqs |-> headReqs \o <<"list">>]
        ELSE IF listResponse.KeyCount > 0 \/ k.key = <<>>
            THEN [out |-> "ok", val |-> DirectoryStat, reqs |-> headReqs \o <<"list">>]
        ELSE [out |-> "PathNotFound", val |-> <<>>, reqs |-> headReqs \o <<"list">>]

\* stat(fsPath) as a function of the bucket.  For the root no head request is
\* sent: the code throws the not-found error itself.
StatResult(b, fsPath, fault) ==
    LET k == S3Key(fsPath)
        originalS3Key == k.key
        head == HeadObject(b, originalS3Key)
        headReqs == IF originalS3Key = <<>> THEN <<>> ELSE <<"head">>
        prefixToCheck == IF originalS3Key # <<>> THEN originalS3Key \o <<"/">> ELSE <<>>
        listResponse == ListObjectsV2(b, prefixToCheck, NoToken, StatMaxKeys)
    IN  IF ~k.ok THEN [out |-> "PathTraversal", val |-> <<>>, reqs |-> <<>>]
        ELSE IF originalS3Key # <<>> /\ fault = "head"
            THEN [out |-> "StoreError", val |-> <<>>, reqs |-> headReqs]
        ELSE IF originalS3Key # <<>> /\ head.out = "ok"
            THEN [out |-> "ok", val |-> FileStat(head.val), reqs |-> headReqs]
        ELSE IF fault = "list"
            THEN [out |-> "StoreError", val |-> <<>>, reqs |-> headReqs \o <<"list">>]
        ELSE IF listResponse.KeyCount > 0 \/ originalS3Key = <<>>
            THEN [out |-> "ok", val |-> DirectoryStat, reqs |-> headReqs \o <<"list">>]
        ELSE [out |-> "PathNotFound", val |-> <<>>, reqs |-> headReqs \o <<"list">>]

Stat(fsPath, fault) ==
    LET r == StatResult(bucket, fsPath, fault)
    IN  /\ pc = "idle"
        /\ Done([op |-> "stat", path |-> fsPath, fault |-> fault], r.out, r.val, r.reqs)
        /\ UNCHANGED <<bucket, pc, tree, renaming, keyVars, cdnVars>>

\* copy without the existence check: the store-side copy is always issued.
CopyWithoutCheck(sourceFsPath, destinationFsPath, overwrite, fault) ==
    LET sourceKey == S3Key(sourceFsPath)
        destinationKey == S3Key(destinationFsPath)
        call == [op |-> "copy", path |-> sourceFsPath, destination |-> destinationFsPath,
                 overwrite |-> overwrite, fault |-> fault]
        copied == CopyObject(bucket, sourceKey.key, destinationKey.key)
    IN  /\ pc = "idle"
        /\ IF ~sourceKey.ok \/ ~destinationKey.ok
               THEN Throws(call, "PathTraversal", <<>>) /\ UNCHANGED bucket
           ELSE IF sourceKey.key = <<>> \/ destinationKey.key = <<>>
               THEN Throws(call, "EmptyKey", <<>>) /\ UNCHANGED bucket
           ELSE IF fault = "copy"
               THEN Throws(call, "StoreError", <<"copy">>) /\ UNCHANGED bucket
           ELSE IF copied.out # "ok"
               THEN Throws(call, copied.out, <<"copy">>) /\ UNCHANGED bucket
           ELSE /\ bucket' = copied.val
                /\ Returns(call, TRUE, <<"copy">>)
        /\ UNCHANGED <<pc, tree, renaming, keyVars, cdnVars>>

Copy(sourceFsPath, destinationFsPath, overwrite, fault) ==
    LET sourceKey == S3Key(sourceFsPath)
        destinationKey == S3Key(destinationFsPath)
        call == [op |-> "copy", path |-> sourceFsPath, destination |-> destinationFsPath,
                 overwrite |-> overwrite, fault |-> fault]
        check == ExistsResult(bucket, destinationFsPath, fault)
        checkReqs == IF overwrite THEN <<>> ELSE check.reqs
        copied == CopyObject(bucket, sourceKey.key, destinationKey.key)
    IN  /\ pc = "idle"
        /\ IF ~sourceKey.ok \/ ~destinationKey.ok
               THEN Throws(call, "PathTraversal", <<>>) /\ UNCHANGED bucket
           ELSE IF sourceKey.key = <<>> \/ destinationKey.key = <<>>
               THEN Throws(call, "EmptyKey", <<>>) /\ UNCHANGED bucket
           ELSE IF ~overwrite /\ check.out # "ok"
               THEN Throws(call, check.out, checkReqs) /\ UNCHANGED bucket
           ELSE IF ~overwrite /\ check.val
               THEN Throws(call, "AlreadyExists", checkReqs) /\ UNCHANGED bucket
           ELSE IF fault = "copy"
               THEN Throws(call, "StoreError", checkReqs \o <<"copy">>) /\ UNCHANGED bucket
           ELSE IF copied.out # "ok"
               THEN Throws(call, copied.out, checkReqs \o <<"copy">>) /\ UNCHANGED bucket
           ELSE /\ bucket' = copied.val
                /\ Returns(call, TRUE, checkReqs \o <<"copy">>)
        /\ UNCHANGED <<pc, tree, renaming, keyVars, cdnVars>>

\* createDirectory without the existence check: the marker is always put.
CreateDirectoryUnchecked(fsPath, fault) ==
    LET k == S3Key(fsPath)
        call == [op |-> "createDirectory", path |-> fsPath, fault |-> fault]
    IN  /\ pc = "idle"
        /\ IF ~k.ok THEN Throws(call, "PathTraversal", <<>>) /\ UNCHANGED bucket
           ELSE IF k.key = <<>> THEN Returns(call, TRUE, <<>>) /\ UNCHANGED bucket
           ELSE IF fault = "put" THEN Throws(call, "StoreError", <<"put">>) /\ UNCHANGED bucket
           ELSE /\ bucket' = PutObject(bucket, k.key \o <<"/">>, <<>>)
                /\ Returns(call, TRUE, <<"put">>)
        /\ UNCHANGED <<pc, tree, renaming, keyVars, cdnVars>>

CreateDirectory(fsPath, fault) ==
    LET k == S3Key(fsPath)
        call == [op |-> "createDirectory", path |-> fsPath, fault |-> fault]
        s3Key == IF EndsWith(k.key, <<"/">>) THEN k.key ELSE k.key \o <<"/">>
        existingStat == StatResult(bucket, s3Key, fault)
    IN  /\ pc = "idle"
        /\ IF ~k.ok THEN Throws(call, "PathTraversal", <<>>) /\ UNCHANGED bucket
           ELSE IF k.key = <<>> THEN Returns(call, TRUE, <<>>) /\ UNCHANGED bucket
           ELSE IF existingStat.out = "ok" /\ existingStat.val.isDirectory
               THEN Returns(call, TRUE, existingStat.reqs) /\ UNCHANGED bucket
           ELSE IF existingStat.out \notin {"ok", "PathNotFound"}
               THEN Throws(call, existingStat.out, existingStat.reqs) /\ UNCHANGED bucket
           ELSE IF fault = "put"
               THEN Throws(call, "StoreError", existingStat.reqs \o <<"put">>) /\ UNCHANGED bucket
           ELSE /\ bucket' = PutObject(bucket, s3Key, <<>>)
                /\ Returns(call, TRUE, existingStat.reqs \o <<"put">>)
        /\ UNCHANGED <<pc, tree, renaming, keyVars, cdnVars>>

\* `existingContent + content`: a Buffer operand is converted with toString(),
\* which decodes its bytes as UTF-8.
StringOf(content) ==
    IF content.kind = "text" THEN content.data ELSE Utf8Decode(content.data)

\* appendFile.  fault "get" fails the read, "put" every write and "putOnce"
\* the first write sent.  The catch takes every error of the try block: of
\* the read, whatever it is, and of the first write.
AppendFile(filePath, content, fault) ==
    LET k == S3Key(filePath)
        call == [op |-> "appendFile", path |-> filePath, content |-> content, fault |-> fault]
        response == GetObject(bucket, k.key)
        readOk == k.ok /\ k.key # <<>> /\ fault # "get" /\ response.out = "ok"
        readReqs == IF k.ok /\ k.key # <<>> THEN <<"get">> ELSE <<>>
        existingContent == TransformToString(response.val, "utf8")
        newContent == Text(existingContent \o StringOf(content))
        firstWriteOk == readOk /\ fault \notin {"put", "putOnce"}
        tryReqs == IF readOk THEN readReqs \o <<"put">> ELSE readReqs
    IN  /\ pc = "idle"
        /\ IF firstWriteOk
               THEN /\ bucket' = PutObject(bucket, k.key, BodyBytes(newContent))
                    /\ Returns(call, TRUE, tryReqs)
           ELSE IF ~k.ok THEN Throws(call, "PathTraversal", <<>>) /\ UNCHANGED bucket
           ELSE IF k.key = <<>> THEN Throws(call, "EmptyKey", <<>>) /\ UNCHANGED bucket
           ELSE IF fault = "put" \/ (fault = "putOnce" /\ ~readOk)
               THEN Throws(call, "StoreError", tryReqs \o <<"put">>) /\ UNCHANGED bucket
           ELSE /\ bucket' = PutObject(bucket, k.key, BodyBytes(content))
                /\ Returns(call, TRUE, tryReqs \o <<"put">>)
        /\ UNCHANGED <<pc, tree, renaming, keyVars, cdnVars>>

\* copy as a function of the bucket: its outcome, the requests sent and the
\* bucket it leaves.
CopyResult(b, sourceFsPath, destinationFsPath, overwrite, fault, selfCopy) ==
    LET sourceKey == S3Key(sourceFsPath)
        destinationKey == S3Key(destinationFsPath)
        check == ExistsResult(b, destinationFsPath, fault)
        checkReqs == IF overwrite THEN <<>> ELSE check.reqs
        copied == CopyObjectOnEndpoint(b, sourceKey.key, destinationKey.key, selfCopy)
    IN  IF ~sourceKey.ok \/ ~destinationKey.ok
            THEN [out |-> "PathTraversal", reqs |-> <<>>, bucket |-> b]
        ELSE IF sourceKey.key = <<>> \/ destinationKey.key = <<>>
            THEN [out |-> "EmptyKey", reqs |-> <<>>, bucket |-> b]
        ELSE IF ~overwrite /\ check.out # "ok"
            THEN [out |-> check.out, reqs |-> checkReqs, bucket |-> b]
        ELSE IF ~overwrite /\ check.val
            THEN [out |-> "AlreadyExists", reqs |-> checkReqs, bucket |-> b]
        ELSE IF fault = "copy"
            THEN [out |-> "StoreError", reqs |-> checkReqs \o <<"copy">>, bucket |-> b]
        ELSE IF copied.out # "ok"
            THEN [out |-> copied.out, reqs |-> checkReqs \o <<"copy">>, bucket |-> b]
        ELSE [out |-> "ok", reqs |-> checkReqs \o <<"copy">>, bucket |-> copied.val]

(* rename: copy with overwrite, then deleteFile of the old path.  The two   *)
(* awaits are two steps: RenameCopy is the call up to the return of copy,   *)
(* RenameDelete the deleteFile and the return.  Between them the process    *)
(* may die (RenameCrash).  had is what the old key held at the call: <<>>   *)
(* for no object, <<bytes>> for an object.                                  *)

NoRename == [op |-> "none"]

\* rename that does not stop when copy throws: the delete follows a failed
\* copy as well.
RenameCopyUnawaited(oldPath, newPath, fault, selfCopy) ==
    LET copied == CopyResult(bucket, oldPath, newPath, TRUE, fault, selfCopy)
        oldKey == S3Key(oldPath).key
        call == [op |-> "rename", path |-> oldPath, destination |-> newPath,
                 fault |-> fault, selfCopy |-> selfCopy,
                 had |-> IF HasObject(bucket, oldKey) THEN <<bucket[oldKey]>> ELSE <<>>]
    IN  /\ pc = "idle"
        /\ IF copied.out \in {"PathTraversal", "EmptyKey"}
           THEN /\ Throws(call, copied.out, copied.reqs)
                /\ UNCHANGED <<bucket, pc, renaming>>
           ELSE /\ bucket' = copied.bucket
                /\ pc' = "renaming"
                /\ renaming' = call
                /\ UNCHANGED <<last, prev>>
        /\ UNCHANGED <<tree, keyVars, cdnVars>>

RenameCopy(oldPath, newPath, fault, selfCopy) ==
    LET copied == CopyResult(bucket, oldPath, newPath, TRUE, fault, selfCopy)
        oldKey == S3Key(oldPath).key
        call == [op |-> "rename", path |-> oldPath, destination |-> newPath,
                 fault |-> fault, selfCopy |-> selfCopy,
                 had |-> IF HasObject(bucket, oldKey) THEN <<bucket[oldKey]>> ELSE <<>>]
    IN  /\ pc = "idle"
        /\ IF copied.out # "ok"
           THEN /\ Throws(call, copied.out, copied.reqs)
                /\ UNCHANGED <<bucket, pc, renaming>>
           ELSE /\ bucket' = copied.bucket
                /\ pc' = "renaming"
                /\ renaming' = call
                /\ UNCHANGED <<last, prev>>
        /\ UNCHANGED <<tree, keyVars, cdnVars>>

RenameDelete(fault) ==
    LET call == [renaming EXCEPT !.fault = fault]
    IN  /\ pc = "renaming"
        /\ IF fault = "delete"
           THEN Throws(call, "StoreError", <<"copy", "delete">>) /\ UNCHANGED bucket
           ELSE /\ bucket' = DeleteObject(bucket, S3Key(renaming.path).key)
                /\ Returns(call, TRUE, <<"copy", "delete">>)
        /\ pc' = "idle"
        /\ renaming' = NoRename
        /\ UNCHANGED <<tree, keyVars, cdnVars>>

\* The process dies after the copy, before the delete is sent.
RenameCrash ==
    /\ pc = "renaming"
    /\ Done(renaming, "crashed", <<>>, <<"copy">>)
    /\ pc' = "idle"
    /\ renaming' = NoRename
    /\ UNCHANGED <<bucket, tree, keyVars, cdnVars>>

(* getDirectoryTree: an async generator.  TreeStart is the first next() up  *)
(* to the loop, TreePage one turn of the do-while loop: one list request    *)
(* and the keys it yields.  The caller drains the generator before its next *)
(* call.                                                                    *)

NoTree == [prefix |-> <<>>, recursive |-> TRUE, ignoreFilter |-> "none",
           continuationToken |-> NoToken, yielded |-> <<>>, pages |-> 0]

\* An ignoreFilter is named by the keys it matches: "none" is no filter,
\* "b" matches the keys that end in b.
IgnoreFilterMatches(ignoreFilter, key) == ignoreFilter = "b" /\ EndsWith(key, <<"b">>)

Includes(s, c) == \E i \in 1..Len(s) : s[i] = c

\* The body of the for loop: whether a listed key is yielded.
IsYielded(key, normalizedPrefix, recursive, ignoreFilter) ==
    LET relativePath == IF StartsWith(key, normalizedPrefix)
                        THEN Substring(key, Len(normalizedPrefix)) ELSE key
    IN  /\ ~(key = normalizedPrefix /\ EndsWith(key, <<"/">>))
        /\ ~(~recursive /\ Includes(relativePath, "/"))
        /\ ignoreFilter = "none" \/ ~IgnoreFilterMatches(ignoreFilter, key)

TreeCall(fsPath, recursive, ignoreFilter) ==
    [op |-> "getDirectoryTree", path |-> fsPath, recursive |-> recursive,
     ignoreFilter |-> ignoreFilter]

TreeStart(fsPath, recursive, ignoreFilter) ==
    LET s3Prefix == S3Key(fsPath)
        normalizedPrefix ==
            IF s3Prefix.key = <<>> THEN <<>>
            ELSE IF EndsWith(s3Prefix.key, <<"/">>) THEN s3Prefix.key
            ELSE s3Prefix.key \o <<"/">>
    IN  /\ pc = "idle"
        /\ IF ~s3Prefix.ok
           THEN /\ Throws(TreeCall(fsPath, recursive, ignoreFilter)
                            @@ [yielded |-> <<>>, fault |-> "none"], "PathTraversal", <<>>)
                /\ UNCHANGED <<pc, tree>>
           ELSE /\ pc' = "listing"
                /\ tree' = [prefix |-> normalizedPrefix, recursive |-> recursive,
                            ignoreFilter |-> ignoreFilter, path |-> fsPath,
                            continuationToken |-> NoToken, yielded |-> <<>>, pages |-> 0]
                /\ UNCHANGED <<last, prev>>
        /\ UNCHANGED <<bucket, renaming, keyVars, cdnVars>>

PageSize == 2

\* The listing without the loop: the generator ends after its first page.
TreeFirstPageOnly(fault) ==
    LET response == ListObjectsV2(bucket, tree.prefix, tree.continuationToken, PageSize)
        keep(key) == IsYielded(key, tree.prefix, tree.recursive, tree.ignoreFilter)
        yielded == tree.yielded \o SelectSeq(response.Contents, keep)
        call == TreeCall(tree.path, tree.recursive, tree.ignoreFilter)
    IN  /\ pc = "listing"
        /\ IF fault = "list"
           THEN Throws(call @@ [yielded |-> tree.yielded, fault |-> fault], "StoreError",
                       <<"list">>)
           ELSE Returns(call @@ [yielded |-> yielded, fault |-> fault], TRUE, <<"list">>)
        /\ pc' = "idle"
        /\ tree' = NoTree
        /\ UNCHANGED <<bucket, renaming, keyVars, cdnVars>>

TreePage(fault) ==
    LET response == ListObjectsV2(bucket, tree.prefix, tree.continuationToken, PageSize)
        keep(key) == IsYielded(key, tree.prefix, tree.recursive, tree.ignoreFilter)
        yielded == tree.yielded \o SelectSeq(response.Contents, keep)
        call == TreeCall(tree.path, tree.recursive, tree.ignoreFilter)
        reqs == [i \in 1..(tree.pages + 1) |-> "list"]
    IN  /\ pc = "listing"
        /\ IF fault = "list"
           THEN /\ Throws(call @@ [yielded |-> tree.yielded, fault |-> fault], "StoreError", reqs)
                /\ pc' = "idle"
                /\ tree' = NoTree
           ELSE IF response.NextContinuationToken # NoToken
           THEN /\ tree' = [tree EXCEPT !.continuationToken = response.NextContinuationToken,
                                        !.yielded = yielded, !.pages = @ + 1]
                /\ UNCHANGED <<pc, last, prev>>
           ELSE /\ Returns(call @@ [yielded |-> yielded, fault |-> fault], TRUE, reqs)
                /\ pc' = "idle"
                /\ tree' = NoTree
        /\ UNCHANGED <<bucket, renaming, keyVars, cdnVars>>

----------------------------------------------------------------------------
(* The CDN adapters: S3CDNService, whose baseUrl is optional, and           *)
(* S3CDNProvider, whose constructor fills in the bucket's S3 URL.           *)

Https == <<"h", "t", "t", "p", "s", ":", "/", "/">>
AmazonawsCom == <<"a", "m", "a", "z", "o", "n", "a", "w", "s", ".", "c", "o", "m">>
BucketName == <<"b">>

\* `https://${bucket}.s3.amazonaws.com`
S3BaseUrl == Https \o BucketName \o <<".", "s", "3", ".">> \o AmazonawsCom

\* No baseUrl option (undefined).
NoBaseUrl == <<>>

\* The S3CDNProvider constructor: baseUrl defaults to the bucket's S3 URL.
S3CDNProvider(baseUrl) ==
    [adapter |-> "S3CDNProvider",
     baseUrl |-> IF baseUrl = NoBaseUrl THEN S3BaseUrl ELSE baseUrl]

\* The S3CDNService constructor keeps the config as given.
S3CDNService(baseUrl) == [adapter |-> "S3CDNService", baseUrl |-> baseUrl]

\* The characters "." of a regular expression does not match.
LineTerminators == {"\n", "\r"}

\* url.match(/amazonaws\.com\/(.+)$/): the group of the leftmost match, which
\* runs to the end of the url, is not empty and holds no line terminator; the
\* whole url without a match.
MatchS3Url(url) ==
    LET pattern == AmazonawsCom \o <<"/">>
        matches == {i \in 1..Len(url) :
                       /\ i + Len(pattern) <= Len(url)
                       /\ SubSeq(url, i, i + Len(pattern) - 1) = pattern
                       /\ \A j \in (i + Len(pattern))..Len(url) : url[j] \notin LineTerminators}
    IN  IF matches = {} THEN url
        ELSE LET first == CHOOSE i \in matches : \A j \in matches : i <= j
             IN  Substring(url, first + Len(pattern) - 1)

\* S3CDNService.extractKeyFromUrl
ServiceExtractKeyFromUrl(config, url) ==
    IF config.baseUrl # NoBaseUrl /\ StartsWith(url, config.baseUrl)
    THEN Substring(url, Len(config.baseUrl) + 1)
    ELSE MatchS3Url(url)

\* S3CDNProvider.extractKeyFromUrl
ProviderExtractKeyFromUrl(config, url) ==
    IF StartsWith(url, config.baseUrl)
    THEN Substring(url, Len(config.baseUrl) + 1)
    ELSE MatchS3Url(url)

ExtractKeyFromUrl(config, url) ==
    IF config.adapter = "S3CDNService"
    THEN ServiceExtractKeyFromUrl(config, url)
    ELSE ProviderExtractKeyFromUrl(config, url)

\* The url upload returns for a key.
UploadUrl(config, key) ==
    IF config.adapter = "S3CDNService" /\ config.baseUrl = NoBaseUrl
    THEN S3BaseUrl \o <<"/">> \o key
    ELSE config.baseUrl \o <<"/">> \o key

NoUpload == [url |-> <<>>, id |-> <<>>]

\* upload(data, options): filename is the empty string when no filename is
\* given, and generated is what `${Date.now()}-${random}` then comes to.
CdnUpload(data, filename, generated, fault) ==
    LET key == IF filename # <<>> THEN filename ELSE generated
        call == [op |-> "upload", filename |-> filename, fault |-> fault]
        result == [url |-> UploadUrl(cdn, key), id |-> key]
    IN  /\ pc = "idle"
        /\ IF fault = "put"
           THEN /\ Throws(call, "StoreError", <<"put">>)
                /\ UNCHANGED <<bucket, uploaded>>
           ELSE /\ bucket' = PutObject(bucket, key, data)
                /\ uploaded' = result
                /\ Returns(call, result, <<"put">>)
        /\ UNCHANGED <<pc, tree, renaming, keyVars, cdn>>

\* delete without the try/catch: a failed delete request is thrown.
CdnDeleteUncaught(url, fault) ==
    LET key == ExtractKeyFromUrl(cdn, url)
        call == [op |-> "cdnDelete", url |-> url, key |-> key, fault |-> fault]
    IN  /\ pc = "idle"
        /\ IF fault = "delete"
           THEN Throws(call, "StoreError", <<"delete">>) /\ UNCHANGED bucket
           ELSE /\ bucket' = DeleteObject(bucket, key)
                /\ Returns(call, [success |-> TRUE, message |-> "Successfully deleted"],
                           <<"delete">>)
        /\ UNCHANGED <<pc, tree, renaming, keyVars, cdnVars>>

\* delete(url): key is the key the delete request names.
CdnDelete(url, fault) ==
    LET key == ExtractKeyFromUrl(cdn, url)
        call == [op |-> "cdnDelete", url |-> url, key |-> key, fault |-> fault]
    IN  /\ pc = "idle"
        /\ IF fault = "delete"
           THEN /\ Returns(call, [success |-> FALSE, message |-> "Failed to delete"],
                           <<"delete">>)
                /\ UNCHANGED bucket
           ELSE /\ bucket' = DeleteObject(bucket, key)
                /\ Returns(call, [success |-> TRUE, message |-> "Successfully deleted"],
                           <<"delete">>)
        /\ UNCHANGED <<pc, tree, renaming, keyVars, cdnVars>>

\* exists(url): every error of the head request is false.
CdnExists(url, fault) ==
    LET key == ExtractKeyFromUrl(cdn, url)
        call == [op |-> "cdnExists", url |-> url, key |-> key, fault |-> fault]
    IN  /\ pc = "idle"
        /\ Returns(call, fault # "head" /\ HeadObject(bucket, key).out = "ok", <<"head">>)
        /\ UNCHANGED <<bucket, pc, tree, renaming, keyVars, cdnVars>>

----------------------------------------------------------------------------
(* Absolute paths of the filesystem provider, whose bucketName is           *)
(* BucketName.  These two conversions are public methods; stat uses the     *)
(* first for the absolutePath it reports, and no file operation calls the   *)
(* second: each hands its fsPath to _s3Key as it is.                        *)

S3Scheme == <<"s", "3", ":", "/", "/">>

\* `s3://${this.bucketName}/`
GetBaseDirectory == S3Scheme \o BucketName \o <<"/">>

RelativeOrAbsolutePathToAbsolutePath(p) ==
    IF StartsWith(p, S3Scheme) THEN [ok |-> TRUE, path |-> p]
    ELSE [ok |-> S3Key(p).ok, path |-> GetBaseDirectory \o S3Key(p).key]

\* p.replace(base, '') of a p that starts with base drops that prefix.
RelativeOrAbsolutePathToRelativePath(p) ==
    IF StartsWith(p, GetBaseDirectory)
    THEN [ok |-> TRUE, path |-> SubSeq(p, Len(GetBaseDirectory) + 1, Len(p))]
    ELSE [ok |-> S3Key(p).ok, path |-> S3Key(p).key]

----------------------------------------------------------------------------
(* The filesystem provider on a bucket that starts empty.  Each             *)
(* specification below runs some of its operations on the paths and         *)
(* contents that make the cases of its claims happen.                       *)

EmptyBucket == [k \in {} |-> <<>>]

InitFs ==
    /\ bucket = EmptyBucket
    /\ pc = "idle"
    /\ last = NoCall
    /\ prev = NoCall
    /\ tree = NoTree
    /\ renaming = NoRename

Init ==
    /\ InitFs
    /\ kpath = <<>>
    /\ kres = NoKeyCall
    /\ cdn = S3CDNProvider(NoBaseUrl)
    /\ uploaded = NoUpload

\* a, d, d/a, the root and ../a
FsPaths == {<<"a">>, <<"d">>, <<"d", "/", "a">>, <<>>, <<".", ".", "/", "a">>}

DirPaths == {<<"d">>}

\* "h" and a byte that is no UTF-8
FsContents == {Text(<<104>>), Buffer(<<255>>)}

\* Files, existence and stat.
Next ==
    \/ \E p \in FsPaths, c \in FsContents, f \in {"none", "put"} : WriteFile(p, c, f)
    \/ \E p \in FsPaths, f \in {"none", "delete"} : DeleteFile(p, f)
    \/ \E p \in FsPaths, f \in {"none", "head"} : Exists(p, f)
    \/ \E p \in FsPaths, f \in {"none", "head", "list"} : Stat(p, f)
    \/ \E p \in DirPaths, f \in {"none", "head", "list", "put"} : CreateDirectory(p, f)

Spec == Init /\ [][Next]_vars

\* Writing and reading back: a and its alias ./a/, with text of one, two,
\* three and four UTF-8 bytes per character, an unpaired surrogate, the empty
\* string, and buffers that are and are not UTF-8.
RWPaths == {<<"a">>, <<".", "/", "a", "/">>, <<>>}

RWContents ==
    {Text(<<>>), Text(<<104, 105>>), Text(<<233>>), Text(<<8364>>),
     Text(<<55357, 56832>>), Text(<<55357>>), Buffer(<<255, 0>>), Buffer(<<104>>)}

Encodings == {"none", "utf8", "latin1", "buffer"}

NextRW ==
    \/ \E p \in RWPaths, c \in RWContents, f \in {"none", "put"} : WriteFile(p, c, f)
    \/ \E p \in RWPaths, e \in Encodings, f \in {"none", "get"} : ReadFile(p, e, f)
    \/ \E p \in RWPaths, f \in {"none", "delete"} : DeleteFile(p, f)

SpecRW == Init /\ [][NextRW]_vars

\* Directories: d, its spellings d/ and ./d, the root and ../a, with files at
\* d and d/a coming and going.
MkdirPaths == {<<"d">>, <<"d", "/">>, <<".", "/", "d">>, <<>>, <<".", ".", "/", "a">>}

NextDir ==
    \/ \E p \in {<<"d">>, <<"d", "/", "a">>} : WriteFile(p, Text(<<104>>), "none")
    \/ \E p \in {<<"d">>, <<"d", "/", "a">>} : DeleteFile(p, "none")
    \/ \E p \in MkdirPaths, f \in {"none", "head", "list", "put"} : CreateDirectory(p, f)

SpecDir == Init /\ [][NextDir]_vars

\* Appending to a, to the root and to ../a, while the object is shorter than
\* MaxBodyLen bytes.
MaxBodyLen == 3

AppendPaths == {<<"a">>, <<>>, <<".", ".", "/", "a">>}

CanGrow(fsPath) ==
    LET k == S3Key(fsPath)
    IN  k.ok /\ HasObject(bucket, k.key) => Len(bucket[k.key]) < MaxBodyLen

NextAppend ==
    \/ \E c \in FsContents : WriteFile(<<"a">>, c, "none")
    \/ DeleteFile(<<"a">>, "none")
    \/ \E p \in AppendPaths, c \in FsContents, f \in {"none", "get", "put", "putOnce"} :
           CanGrow(p) /\ AppendFile(p, c, f)

SpecAppend == Init /\ [][NextAppend]_vars

\* Renaming between a, its alias ./a, d and the root, on either kind of
\* endpoint.
RenamePaths == {<<"a">>, <<".", "/", "a">>, <<"d">>, <<>>}

NextRename ==
    \/ \E p \in {<<"a">>, <<"d">>}, c \in FsContents : WriteFile(p, c, "none")
    \/ \E p \in {<<"a">>, <<"d">>} : DeleteFile(p, "none")
    \/ \E p \in RenamePaths, q \in RenamePaths, f \in {"none", "copy"},
          sc \in {"rejected", "accepted"} : RenameCopy(p, q, f, sc)
    \/ \E f \in {"none", "delete"} : RenameDelete(f)
    \/ RenameCrash

SpecRename == Init /\ [][NextRename]_vars

\* Relative and absolute paths of the same objects: a and d/a, and
\* s3://b/a and s3://b/d/a.
AbsPaths ==
    {<<"a">>, GetBaseDirectory \o <<"a">>,
     <<"d", "/", "a">>, GetBaseDirectory \o <<"d", "/", "a">>}

NextAbs ==
    \/ \E p \in AbsPaths, c \in FsContents : WriteFile(p, c, "none")
    \/ \E p \in AbsPaths, e \in {"utf8", "buffer"} : ReadFile(p, e, "none")
    \/ \E p \in AbsPaths : DeleteFile(p, "none")
    \/ \E p \in AbsPaths : Exists(p, "none")
    \/ \E p \in AbsPaths : Stat(p, "none")

SpecAbs == Init /\ [][NextAbs]_vars

\* Copying between a, its alias ./a/, d, the root and ../a.
CopyPaths == {<<"a">>, <<".", "/", "a", "/">>, <<"d">>, <<>>, <<".", ".", "/", "a">>}

NextCopy ==
    \/ \E p \in {<<"a">>, <<"d">>}, c \in FsContents : WriteFile(p, c, "none")
    \/ \E p \in {<<"a">>, <<"d">>} : DeleteFile(p, "none")
    \/ \E p \in CopyPaths, q \in CopyPaths, o \in BOOLEAN, f \in {"none", "head", "copy"} :
           Copy(p, q, o, f)

SpecCopy == Init /\ [][NextCopy]_vars

\* Listing: files under d/ and d/s/, the marker d/, and the key da beside them.
TreeFiles ==
    {<<"d", "/", "a">>, <<"d", "/", "b">>, <<"d", "/", "s", "/", "a">>, <<"d", "a">>}

TreeRoots == {<<"d">>, <<"d", "/", "s">>, <<>>, <<".", ".", "/", "a">>}

NextTree ==
    \/ \E p \in TreeFiles : WriteFile(p, Text(<<104>>), "none")
    \/ \E p \in TreeFiles : DeleteFile(p, "none")
    \/ \E p \in DirPaths : CreateDirectory(p, "none")
    \/ \E p \in TreeRoots, r \in BOOLEAN, i \in {"none", "b"} : TreeStart(p, r, i)
    \/ \E f \in {"none", "list"} : TreePage(f)

SpecTree == Init /\ [][NextTree]_vars

\* The CDN adapters: either class, with and without a custom baseUrl; the
\* filenames f, d/f, amazonaws.com/f and one with a line feed; no filename, with
\* the generated keys 1-x and 2- (an empty random part).
CustomBaseUrl == Https \o <<"c", "d", "n">>

CdnConfigs ==
    {S3CDNService(NoBaseUrl), S3CDNService(CustomBaseUrl),
     S3CDNProvider(NoBaseUrl), S3CDNProvider(CustomBaseUrl)}

Filenames ==
    {<<>>, <<"f">>, <<"d", "/", "f">>, AmazonawsCom \o <<"/", "f">>, <<"f", "\n", "f">>}

GeneratedKeys == {<<"1", "-", "x">>, <<"2", "-">>}

\* The urls the caller holds: that of the last upload.
UploadedUrls == IF uploaded = NoUpload THEN {} ELSE {uploaded.url}

InitCDN ==
    /\ InitFs
    /\ kpath = <<>>
    /\ kres = NoKeyCall
    /\ cdn \in CdnConfigs
    /\ uploaded = NoUpload

NextCDN ==
    \/ \E n \in Filenames, g \in GeneratedKeys, f \in {"none", "put"} :
           CdnUpload(<<1>>, n, g, f)
    \/ \E u \in UploadedUrls, f \in {"none", "delete"} : CdnDelete(u, f)
    \/ \E u \in UploadedUrls, f \in {"none", "head"} : CdnExists(u, f)

SpecCDN == InitCDN /\ [][NextCDN]_vars

----------------------------------------------------------------------------
(* The normalizer alone, on every short path *)

MaxPathLen == 7
PathChars == {"a", ".", "/", BS}
KeyPaths == Strs(PathChars, MaxPathLen)

\* The caller's path is drawn here; KeyCall applies _s3Key to it.
InitKey ==
    /\ kpath \in KeyPaths
    /\ kres = NoKeyCall
    /\ InitFs
    /\ cdn = S3CDNProvider(NoBaseUrl)
    /\ uploaded = NoUpload

KeyCall ==
    /\ ~kres.called
    /\ kres' = [called |-> TRUE, ok |-> S3Key(kpath).ok, key |-> S3Key(kpath).key]
    /\ UNCHANGED <<kpath, fsVars, cdnVars>>

NextKey == KeyCall

SpecKey == InitKey /\ [][NextKey]_vars

----------------------------------------------------------------------------
(* C1 *)

\* The segments of a string, read off the positions of its separators.
SepPositions(s, seps) == {i \in 1..Len(s) : s[i] \in seps} \cup {0, Len(s) + 1}

SegmentBounds(s, seps) ==
    {b \in SepPositions(s, seps) \X SepPositions(s, seps) :
        /\ b[1] < b[2]
        /\ \A m \in SepPositions(s, seps) : ~(b[1] < m /\ m < b[2])}

SegmentOf(s, b) == SubSeq(s, b[1] + 1, b[2] - 1)

IsRealSegment(seg) == seg \notin {<<>>, Dot, DotDot}

\* A ".." segment of the path that has, to its left, at least as many ".."
\* segments as named segments: the walk meets it, or an earlier one, with an
\* empty stack.
EscapesRoot(p) ==
    LET B == SegmentBounds(p, {"/", BS})
    IN  \E b \in B :
            /\ SegmentOf(p, b) = DotDot
            /\ Cardinality({c \in B : c[2] <= b[1] /\ SegmentOf(p, c) = DotDot})
                 >= Cardinality({c \in B : c[2] <= b[1] /\ IsRealSegment(SegmentOf(p, c))})

InsideRootKey(k) ==
    \/ k = <<>>
    \/ /\ Head(k) # "/"
       /\ Last(k) # "/"
       /\ \A b \in SegmentBounds(k, {"/"}) : IsRealSegment(SegmentOf(k, b))

\* C1: _s3Key fails exactly on the paths that meet a ".." segment with an empty
\* stack, and every key it returns has no "..", "." or empty segment and no
\* leading or trailing "/".
C1_KeyInsideRoot ==
    kres.called =>
        /\ kres.ok = ~EscapesRoot(kpath)
        /\ kres.ok => InsideRootKey(kres.key)

\* "a/../.." was normalized and refused; "/a/./a/" was normalized to "a/a".
C1_Witness ==
    /\ kres.called
    /\ \/ kpath = <<"a", "/", ".", ".", "/", ".", ".">> /\ ~kres.ok
       \/ kpath = <<"/", "a", "/", ".", "/", "a", "/">> /\ kres.ok /\ kres.key = <<"a", "/", "a">>

----------------------------------------------------------------------------
(* C2 *)

\* readFile right after a successful writeFile of the same path, the get
\* request answered by the store.
ReadsBackWrite ==
    /\ prev.op = "writeFile"
    /\ last.op = "readFile"
    /\ last.path = prev.path
    /\ last.fault = "none"

\* The encoding that reads a content back as what it was: "buffer" for a
\* Buffer, UTF-8 (named or by default) for a string, which is stored as UTF-8.
SameEncoding(content, encoding) ==
    IF content.kind = "buffer" THEN encoding = "buffer" ELSE encoding \in {"utf8", "none"}

\* A string without an unpaired surrogate.
WellFormed(units) ==
    \A i \in 1..Len(units) :
        /\ IsHighSurrogate(units[i]) => i < Len(units) /\ IsLowSurrogate(units[i + 1])
        /\ IsLowSurrogate(units[i]) => i > 1 /\ IsHighSurrogate(units[i - 1])

\* C2 as stated: writeFile(path, content) then readFile(path, sameEncoding)
\* returns exactly content, for every content.
C2_RoundTripEveryContent ==
    ReadsBackWrite /\ SameEncoding(prev.content, last.encoding) =>
        last.out = "ok" /\ last.val = prev.content

\* C2, amended: writeFile(path, content) then readFile(path, sameEncoding)
\* returns exactly content for every Buffer read with "buffer" and every string
\* without an unpaired surrogate read as UTF-8.
C2_RoundTripWellFormed ==
    /\ ReadsBackWrite
    /\ SameEncoding(prev.content, last.encoding)
    /\ prev.content.kind = "text" => WellFormed(prev.content.data)
    => last.out = "ok" /\ last.val = prev.content

\* A surrogate pair (four UTF-8 bytes) written to ./a/ and read back as UTF-8.
C2_Witness ==
    /\ ReadsBackWrite
    /\ prev.path = <<".", "/", "a", "/">>
    /\ prev.content = Text(<<55357, 56832>>)
    /\ last.encoding = "utf8"
    /\ last.out = "ok"
    /\ bucket[<<"a">>] = <<240, 159, 152, 128>>

----------------------------------------------------------------------------
(* C3 *)

\* exists right after a successful writeFile or deleteFile of the same path.
ExistsFollows(op) ==
    /\ prev.op = op
    /\ last.op = "exists"
    /\ last.path = prev.path

\* C3: when the store answers the head request, exists(path) returns true right
\* after a successful writeFile(path) and false right after a successful
\* deleteFile(path), whatever else the bucket holds.
C3_ExistsAfterWriteAndDelete ==
    /\ ExistsFollows("writeFile") /\ last.fault = "none" => last.out = "ok" /\ last.val = TRUE
    /\ ExistsFollows("deleteFile") /\ last.fault = "none" => last.out = "ok" /\ last.val = FALSE

\* d was deleted while d/a and the marker d/ stay stored, and exists(d) said
\* false.
C3_Witness ==
    /\ ExistsFollows("deleteFile")
    /\ last.path = <<"d">>
    /\ last.out = "ok" /\ last.val = FALSE
    /\ HasObject(bucket, <<"d", "/", "a">>)
    /\ HasObject(bucket, <<"d", "/">>)

----------------------------------------------------------------------------
(* C4 *)

\* C4 as stated: exists never throws, and every error of the head request is
\* reported as false.
C4_ExistsNeverThrows ==
    last.op = "exists" =>
        /\ last.out = "ok"
        /\ last.fault = "head" => last.val = FALSE

\* C4, amended: exists returns false without a request for the root, returns
\* whether the key holds an object when the store answers the head request
\* (not-found is false), and throws otherwise: the traversal error for a path
\* that escapes the root, the store's error when the head request fails with
\* anything but not-found.
C4_ExistsThrowsOtherErrors ==
    last.op = "exists" =>
        LET key == S3Key(last.path).key
        IN  IF EscapesRoot(last.path) THEN last.out = "PathTraversal" /\ last.reqs = <<>>
            ELSE IF key = <<>> THEN last.out = "ok" /\ last.val = FALSE /\ last.reqs = <<>>
            ELSE IF last.fault = "head" THEN last.out = "StoreError"
            ELSE last.out = "ok" /\ last.val = HasObject(bucket, key)

\* The head request for the stored key d/a failed, and exists threw.
C4_Witness ==
    /\ last.op = "exists"
    /\ last.path = <<"d", "/", "a">>
    /\ last.fault = "head"
    /\ last.out = "StoreError"
    /\ HasObject(bucket, <<"d", "/", "a">>)

----------------------------------------------------------------------------
(* C5 *)

HasDescendant(b, key) == \E k \in DOMAIN b : StartsWith(k, key \o <<"/">>)

\* C5: with the store answering, stat gives a file record where the key holds
\* an object; otherwise a directory record (size 0, no timestamps) for the root
\* and for a key some stored key lies under; otherwise the not-found error.  A
\* head request that fails with another error ends stat with that error.
C5_StatClassifies ==
    last.op = "stat" /\ ~EscapesRoot(last.path) =>
        LET key == S3Key(last.path).key
        IN  /\ last.fault = "none" =>
                IF key # <<>> /\ HasObject(bucket, key)
                THEN /\ last.out = "ok"
                     /\ last.val.isFile /\ ~last.val.isDirectory
                     /\ last.val.size = Len(bucket[key])
                ELSE IF key = <<>> \/ HasDescendant(bucket, key)
                THEN /\ last.out = "ok"
                     /\ last.val.isDirectory /\ ~last.val.isFile
                     /\ last.val.size = 0
                     /\ last.val.modified = "undefined"
                     /\ last.val.created = "undefined"
                     /\ last.val.accessed = "undefined"
                ELSE last.out = "PathNotFound"
            /\ last.fault = "head" /\ key # <<>> => last.out = "StoreError"

\* stat(d) gave a directory record with only d/a stored: no object at d, no
\* marker d/.
C5_Witness ==
    /\ last.op = "stat"
    /\ last.path = <<"d">>
    /\ last.out = "ok" /\ last.val.isDirectory
    /\ DOMAIN bucket = {<<"d", "/", "a">>}

----------------------------------------------------------------------------
(* C6 *)

\* The keys a finished listing is to yield: the stored keys under the prefix
\* but the marker, without those the filter matches and, when not recursive,
\* without those with a "/" after the prefix.
ExpectedTree(b, prefix, recursive, ignoreFilter) ==
    {k \in DOMAIN b :
        /\ StartsWith(k, prefix)
        /\ k # prefix
        /\ ~IgnoreFilterMatches(ignoreFilter, k)
        /\ recursive \/ ~Includes(SubSeq(k, Len(prefix) + 1, Len(k)), "/")}

PagesFor(n) == IF n = 0 THEN 1 ELSE (n + PageSize - 1) \div PageSize

\* C6: a getDirectoryTree that ran to its end yielded exactly the expected
\* keys, each once and in the store's order, and sent one list request per
\* page of the keys under the prefix.
C6_TreeYieldsAllPages ==
    last.op = "getDirectoryTree" /\ last.out = "ok" =>
        LET key == S3Key(last.path).key
            prefix == IF key = <<>> THEN <<>> ELSE key \o <<"/">>
            under == {k \in DOMAIN bucket : StartsWith(k, prefix)}
        IN  /\ {last.yielded[i] : i \in 1..Len(last.yielded)}
                 = ExpectedTree(bucket, prefix, last.recursive, last.ignoreFilter)
            /\ \A i, j \in 1..Len(last.yielded) :
                   i < j => KeyLess(last.yielded[i], last.yielded[j])
            /\ Len(last.reqs) = PagesFor(Cardinality(under))

\* With d/, d/a, d/b, d/s/a and da stored, the listing of d took two pages and
\* yielded d/a, d/b and d/s/a.
C6_Witness ==
    /\ last.op = "getDirectoryTree"
    /\ last.path = <<"d">>
    /\ last.recursive
    /\ last.ignoreFilter = "none"
    /\ last.out = "ok"
    /\ last.yielded = <<<<"d", "/", "a">>, <<"d", "/", "b">>, <<"d", "/", "s", "/", "a">>>>
    /\ Len(last.reqs) = 2
    /\ DOMAIN bucket = TreeFiles \cup {<<"d", "/">>}

----------------------------------------------------------------------------
(* C7 *)

\* C7: a copy with overwrite false onto a key that holds an object, the head
\* request answered, fails with the already-exists error, sends no copy
\* request and leaves the bucket as it was; a copy with overwrite true sends
\* the copy request alone, and when it succeeds the destination holds what the
\* source held.
C7_CopyRespectsOverwrite ==
    [][last'.op = "copy" =>
        LET sourceKey == S3Key(last'.path)
            destinationKey == S3Key(last'.destination)
            valid == /\ sourceKey.ok /\ destinationKey.ok
                     /\ sourceKey.key # <<>> /\ destinationKey.key # <<>>
        IN  /\ /\ valid /\ ~last'.overwrite /\ last'.fault # "head"
               /\ HasObject(bucket, destinationKey.key)
               => /\ last'.out = "AlreadyExists"
                  /\ last'.reqs = <<"head">>
                  /\ bucket' = bucket
            /\ valid /\ last'.overwrite
               => /\ last'.reqs = <<"copy">>
                  /\ last'.out = "ok" =>
                        /\ HasObject(bucket, sourceKey.key)
                        /\ bucket'[destinationKey.key] = bucket[sourceKey.key]]_vars

\* copy(a, d) without overwrite was refused: d holds other content than a, and
\* only the head request was sent.
C7_Witness ==
    /\ last.op = "copy"
    /\ last.path = <<"a">> /\ last.destination = <<"d">>
    /\ ~last.overwrite
    /\ last.out = "AlreadyExists"
    /\ last.reqs = <<"head">>
    /\ HasObject(bucket, <<"a">>) /\ HasObject(bucket, <<"d">>)
    /\ bucket[<<"a">>] # bucket[<<"d">>]

----------------------------------------------------------------------------
(* C8 *)

\* C8 as stated: the key that delete(result.url) and exists(result.url) name
\* is result.id, so that exists(result.url) right after a successful
\* delete(result.url) is false.
C8_UrlReversesToId ==
    last.op \in {"cdnDelete", "cdnExists"} /\ last.url = uploaded.url =>
        /\ last.key = uploaded.id
        /\ /\ last.op = "cdnExists"
           /\ prev.op = "cdnDelete" /\ prev.url = last.url /\ prev.val.success
           => last.val = FALSE

----------------------------------------------------------------------------
(* C9 *)

\* delete(url) right after a delete(url) that reported success.
DeletesAgain ==
    /\ prev.op = "cdnDelete"
    /\ prev.val.success
    /\ last.op = "cdnDelete"
    /\ last.url = prev.url

\* C9 as stated: delete of a url whose object is already deleted resolves to
\* success = false.
C9_DeleteAgainReportsFailure ==
    DeletesAgain => last.out = "ok" /\ last.val.success = FALSE

\* C9, amended: delete(url) never raises, and its success says whether the
\* store accepted the delete request, not whether an object was there: on a
\* url whose object is already deleted it resolves to success = true, and to
\* success = false only when the request fails.
C9_DeleteReportsRequestOutcome ==
    last.op = "cdnDelete" =>
        /\ last.out = "ok"
        /\ last.val.success = (last.fault # "delete")
        /\ DeletesAgain /\ last.fault = "none" =>
               last.val.success /\ ~HasObject(bucket, last.key)

\* The object uploaded as f was deleted, and the second delete of its url
\* reported success as well.
C9_Witness ==
    /\ DeletesAgain
    /\ uploaded.id = <<"f">>
    /\ last.key = <<"f">>
    /\ last.fault = "none"
    /\ last.val.success
    /\ ~HasObject(bucket, <<"f">>)

----------------------------------------------------------------------------
(* C10 *)

\* C10 as stated: deleteFile fails with the not-found error when the key holds
\* no object, and returns true only when an object was there.
C10_DeleteMissingFails ==
    [][last'.op = "deleteFile" /\ ~EscapesRoot(last'.path) /\ S3Key(last'.path).key # <<>> =>
        LET key == S3Key(last'.path).key
        IN  /\ ~HasObject(bucket, key) /\ last'.fault = "none" => last'.out = "NotFound"
            /\ last'.out = "ok" => HasObject(bucket, key)]_vars

----------------------------------------------------------------------------
(* C12 *)

\* C12: _s3Key is idempotent: a key it returned is accepted by _s3Key and
\* normalized to itself.
C12_KeyIdempotent ==
    kres.called /\ kres.ok => S3Key(kres.key) = [ok |-> TRUE, key |-> kres.key]

\* a/../a\ was normalized to a, and a is normalized to a.
C12_Witness ==
    /\ kres.called
    /\ kpath = <<"a", "/", ".", ".", "/", "a", BS>>
    /\ kres.ok
    /\ kres.key = <<"a">>
    /\ S3Key(kres.key).key = <<"a">>

----------------------------------------------------------------------------
(* C11 *)

\* The key an absolute path s3://<bucketName>/k names: that of k.
KeyOfAbsolute(p) == S3Key(RelativeOrAbsolutePathToRelativePath(p).path).key

\* C11 as stated: a file operation called with s3://<bucketName>/k acts on the
\* key of k: writeFile stores the content there, deleteFile leaves no object
\* there, readFile finds the object stored there, and exists and stat answer
\* as they do for k.
C11_AbsolutePathSameKey ==
    /\ last.op \in {"writeFile", "readFile", "deleteFile", "exists", "stat"}
    /\ StartsWith(last.path, GetBaseDirectory)
    /\ KeyOfAbsolute(last.path) # <<>>
    => LET key == KeyOfAbsolute(last.path)
           result == [out |-> last.out, val |-> last.val, reqs |-> last.reqs]
       IN  /\ last.op = "writeFile" /\ last.out = "ok" =>
                  HasObject(bucket, key) /\ bucket[key] = BodyBytes(last.content)
           /\ last.op = "deleteFile" /\ last.out = "ok" => ~HasObject(bucket, key)
           /\ last.op = "readFile" => (last.out = "ok" <=> HasObject(bucket, key))
           /\ last.op = "exists" => result = ExistsResult(bucket, key, last.fault)
           /\ last.op = "stat" => result = StatResult(bucket, key, last.fault)

----------------------------------------------------------------------------
(* C13 *)

\* A step of a rename whose two paths have different keys.
RenamesApart(call) ==
    /\ call.op = "rename"
    /\ S3Key(call.path).key # S3Key(call.destination).key

\* C13: for a rename between two different keys: when the copy fails, rename
\* throws with the bucket as it was and no delete sent; when the copy
\* succeeds, the old key held an object and both keys hold its content until
\* the delete; when the delete fails or the process dies before it, both keys
\* still hold it; when rename returns true, it has sent the copy and then the
\* delete, the new key holds the content and the old key holds nothing.
C13_RenameCopiesThenDeletes ==
    [][/\ pc = "idle" /\ pc' = "idle" /\ RenamesApart(last')
           => /\ last'.out # "ok"
              /\ bucket' = bucket
              /\ \A i \in 1..Len(last'.reqs) : last'.reqs[i] # "delete"
       /\ pc = "idle" /\ pc' = "renaming" /\ RenamesApart(renaming')
           => LET oldKey == S3Key(renaming'.path).key
                  newKey == S3Key(renaming'.destination).key
              IN  /\ HasObject(bucket, oldKey)
                  /\ renaming'.had = <<bucket[oldKey]>>
                  /\ HasObject(bucket', oldKey) /\ bucket'[oldKey] = bucket[oldKey]
                  /\ HasObject(bucket', newKey) /\ bucket'[newKey] = bucket[oldKey]
       /\ pc = "renaming" /\ pc' = "idle" /\ RenamesApart(renaming)
           => LET oldKey == S3Key(renaming.path).key
                  newKey == S3Key(renaming.destination).key
              IN  /\ last'.op = "rename"
                  /\ HasObject(bucket', newKey) /\ <<bucket'[newKey]>> = renaming.had
                  /\ IF last'.out = "ok"
                     THEN /\ last'.val = TRUE
                          /\ last'.reqs = <<"copy", "delete">>
                          /\ ~HasObject(bucket', oldKey)
                     ELSE /\ bucket' = bucket
                          /\ HasObject(bucket', oldKey)
                          /\ <<bucket'[oldKey]>> = renaming.had]_vars

\* rename(a, d) returned true over an older d: d holds what a held, a is gone.
C13_Witness ==
    /\ last.op = "rename"
    /\ last.path = <<"a">> /\ last.destination = <<"d">>
    /\ last.out = "ok"
    /\ last.had = <<<<255>>>>
    /\ prev.op = "writeFile" /\ prev.path = <<"d">> /\ prev.content = Text(<<104>>)
    /\ DOMAIN bucket = {<<"d">>}
    /\ bucket[<<"d">>] = <<255>>

----------------------------------------------------------------------------
(* C16 *)

\* C16 as stated: a rename whose two paths have the same key, with an object
\* stored there, that returns true leaves the object stored with its content.
C16_RenameOntoItselfKeeps ==
    [][/\ pc = "renaming" /\ pc' = "idle"
       /\ S3Key(renaming.path).key = S3Key(renaming.destination).key
       /\ last'.out = "ok"
       => LET key == S3Key(renaming.path).key
          IN  HasObject(bucket', key) /\ <<bucket'[key]>> = renaming.had]_vars

----------------------------------------------------------------------------
(* C14 *)

\* C14 as stated: when appendFile returns true, the key holds what it held
\* followed by the content, or the content alone if it held nothing; what it
\* held is dropped only when the read found no object.
C14_AppendKeepsPrevious ==
    [][last'.op = "appendFile" /\ last'.out = "ok" =>
        LET key == S3Key(last'.path).key
        IN  /\ HasObject(bucket', key)
            /\ bucket'[key] = IF HasObject(bucket, key)
                               THEN bucket[key] \o BodyBytes(last'.content)
                               ELSE BodyBytes(last'.content)]_vars

----------------------------------------------------------------------------
(* C15 *)

Puts(reqs) == Cardinality({i \in 1..Len(reqs) : reqs[i] = "put"})

\* What one createDirectory does, for a path _s3Key accepts: no put for the
\* root and for a path stat reports as a directory; the store's error and no
\* put when the existence check fails with anything but not-found; otherwise
\* one put of an empty object at key + "/".
CreateDirectoryChecksFirst ==
    last'.op = "createDirectory" /\ S3Key(last'.path).ok =>
        LET key == S3Key(last'.path).key
            existing == StatResult(bucket, last'.path, last'.fault)
        IN  IF key = <<>> \/ (existing.out = "ok" /\ existing.val.isDirectory)
                THEN /\ last'.out = "ok" /\ last'.val = TRUE
                     /\ Puts(last'.reqs) = 0
                     /\ bucket' = bucket
            ELSE IF existing.out \notin {"ok", "PathNotFound"}
                THEN /\ last'.out = existing.out
                     /\ Puts(last'.reqs) = 0
                     /\ bucket' = bucket
            ELSE /\ Puts(last'.reqs) = 1
                 /\ IF last'.fault = "put"
                    THEN last'.out = "StoreError" /\ bucket' = bucket
                    ELSE /\ last'.out = "ok" /\ last'.val = TRUE
                         /\ bucket' = PutObject(bucket, key \o <<"/">>, <<>>)

\* createDirectory of the path that the createDirectory before it returned
\* true for.
CreatesAgain ==
    /\ last.op = "createDirectory" /\ last.out = "ok"
    /\ last'.op = "createDirectory" /\ last'.path = last.path

\* C15 as stated: createDirectory checks first, and two calls in a row for
\* the same path put at most once.
C15_CreateDirectoryTwiceWritesOnce ==
    [][/\ CreateDirectoryChecksFirst
       /\ CreatesAgain => Puts(last.reqs) + Puts(last'.reqs) <= 1]_vars

\* C15, amended: createDirectory checks first; two calls in a row for the
\* same path put at most once when no object is stored at the key of the
\* path itself, and when one is, stat reports a file and each call that gets
\* to the put puts the marker again.
C15_CreateDirectoryNoOpWhenDirectory ==
    [][/\ CreateDirectoryChecksFirst
       /\ CreatesAgain =>
              LET key == S3Key(last.path).key
              IN  IF key # <<>> /\ HasObject(bucket, key)
                  THEN last'.fault \notin {"head", "list"} => Puts(last'.reqs) = 1
                  ELSE Puts(last.reqs) + Puts(last'.reqs) <= 1]_vars

\* createDirectory(d) found the marker d/ of an earlier call, the only key
\* stored, and returned true after the head and list requests alone.
C15_Witness ==
    /\ last.op = "createDirectory"
    /\ last.path = <<"d">>
    /\ last.out = "ok"
    /\ last.reqs = <<"head", "list">>
    /\ DOMAIN bucket = {<<"d", "/">>}

====
